---- MODULE Spec2Model ----
(***************************************************************************)
(* PyList (src/objects/list.rs): the wrapper of a Python list, at the      *)
(* level of the foreign reference counts.                                  *)
(*                                                                         *)
(* The foreign heap is a set of cells 1..MaxObj; rc[o] is the reference    *)
(* count stored in cell o (0: the cell is free, either never allocated or  *)
(* deallocated), val[o] the integer the object in it holds.  A pointer to  *)
(* a free cell is dangling: dereferencing it is undefined behaviour, which *)
(* the model records as fault = "uaf" (after it nothing is claimed); the   *)
(* allocator may hand a freed cell out again, so a dangling pointer may    *)
(* also come to designate a different, live object.                        *)
(***************************************************************************)
EXTENDS Integers, Sequences, FiniteSets

\* ---------------------------------------------------------------- bounds
MaxObj == 3        \* cells of the foreign heap
MaxLen == 2        \* longest list
MaxBuild == 2      \* longest host sequence a list is built from
MaxArena == 2      \* entries of the token's arena
MaxHandles == 1    \* owned handles the caller holds at once
MaxRc == 3         \* largest reference count
MaxSteps == 3      \* calls after the construction, next() apart

NULL == 0
Obj == 1..MaxObj
\* Host element values.  The list never inspects an element, so two values
\* that differ are enough to tell elements apart.
Val == {1, 2}

VARIABLES
  slots,    \* the list's items: pointers to cells (ob_item)
  rc,       \* the reference count in each cell
  val,      \* the integer in each cell
  handles,  \* per object, the owned handles (PyObject) the caller holds
  parked,   \* per object, those of them that get_parked_item returned
  arena,    \* the token's arena of tracked objects, in insertion order
  fault,    \* "none", "panic" or "uaf" (use of a freed cell)
  phase,    \* "init" (no list yet), "run", "released" (token torn down)
  iter,     \* the PyListIterator, once iter() was called
  last,     \* the last call: its name, index, item and result
  built,    \* the host sequence the list was built from, while it is as built
  fresh,    \* no set_item, insert_item or foreign change since construction
  yielded,  \* what the iterator yielded since iter(), while fresh
  steps     \* calls made since construction, next() apart

vars == <<slots, rc, val, handles, parked, arena, fault, phase, iter, last,
          built, fresh, yielded, steps>>

\* ------------------------------------------------------ the foreign heap
NoRet == [kind |-> "none", ptr |-> NULL]

\* The part of the state the operations of the list read and write.
Cur == [slots |-> slots, rc |-> rc, val |-> val, handles |-> handles,
        arena |-> arena, fault |-> fault, ret |-> NoRet]

Free(s) == {o \in Obj : s.rc[o] = 0}

\* Py_INCREF: a write through the pointer.
incref(s, o) ==
  IF s.fault # "none" THEN s
  ELSE IF s.rc[o] = 0 THEN [s EXCEPT !.fault = "uaf"]
  ELSE [s EXCEPT !.rc[o] = @ + 1]

\* Py_DECREF: the object is deallocated when its count reaches zero.
decref(s, o) ==
  IF s.fault # "none" THEN s
  ELSE IF s.rc[o] = 0 THEN [s EXCEPT !.fault = "uaf"]
  ELSE IF s.rc[o] = 1 THEN [s EXCEPT !.rc[o] = 0, !.val[o] = 0]
  ELSE [s EXCEPT !.rc[o] = @ - 1]

\* Py_XDECREF / Python::xdecref: nothing for a null pointer.
xdecref(s, p) == IF p = NULL THEN s ELSE decref(s, p)

\* The allocator hands out the lowest free cell: a cell just freed is used
\* again before a cell never used.
malloc(s) == CHOOSE c \in Free(s) : \A d \in Free(s) : c <= d

\* A new integer object holding v, with count 1.
alloc(s, v) ==
  IF s.fault # "none" THEN s
  ELSE LET c == malloc(s)
       IN  [s EXCEPT !.rc[c] = 1, !.val[c] = v,
                     !.ret = [kind |-> "owned", ptr |-> c]]

\* ------------------------------------------------- the foreign list API
\* PyList_New(n): n empty (null) slots.
RECURSIVE Nulls(_)
Nulls(n) == IF n = 0 THEN <<>> ELSE Append(Nulls(n - 1), NULL)

PyList_New(s, n) == [s EXCEPT !.slots = Nulls(n)]

PyList_Size(s) == Len(s.slots)

\* PyList_GetItem: a borrowed pointer, or null (IndexError) out of range.
PyList_GetItem(s, index) ==
  IF s.fault # "none" THEN s
  ELSE IF index < 0 \/ index >= Len(s.slots)
       THEN [s EXCEPT !.ret = [kind |-> "ptr", ptr |-> NULL]]
       ELSE [s EXCEPT !.ret = [kind |-> "ptr", ptr |-> s.slots[index + 1]]]

\* PyList_SetItem steals the reference to item: on success it is stored in
\* the slot and the old occupant released, out of range it is released and
\* -1 returned.
PyList_SetItem(s, index, item) ==
  IF s.fault # "none" THEN s
  ELSE IF index < 0 \/ index >= Len(s.slots)
       THEN [xdecref(s, item) EXCEPT !.ret = [kind |-> "status", ptr |-> -1]]
       ELSE LET old == s.slots[index + 1]
                s1 == [s EXCEPT !.slots[index + 1] = item]
            IN  [xdecref(s1, old) EXCEPT !.ret = [kind |-> "status", ptr |-> 0]]

\* The position list.insert(index, x) stores at in a list of n items.
InsertPos(n, index) ==
  LET w == IF index < 0 THEN index + n ELSE index
  IN  IF w < 0 THEN 0 ELSE IF w > n THEN n ELSE w

\* PyList_Insert takes its own reference to item; like list.insert it
\* clamps the index and so never fails on one.
PyList_Insert(s, index, item) ==
  IF s.fault # "none" THEN s
  ELSE LET w == InsertPos(Len(s.slots), index)
           s1 == [s EXCEPT !.slots = SubSeq(@, 1, w) \o <<item>>
                                      \o SubSeq(@, w + 1, Len(@))]
       IN  [incref(s1, item) EXCEPT !.ret = [kind |-> "status", ptr |-> 0]]

\* ----------------------------------------------------- handles and arena
\* PyObject::from_borrowed_ptr: panics on null, else takes a new reference.
from_borrowed_ptr(s, p) ==
  IF s.fault # "none" THEN s
  ELSE IF p = NULL THEN [s EXCEPT !.fault = "panic"]
  ELSE [incref(s, p) EXCEPT !.ret = [kind |-> "owned", ptr |-> p]]

\* Python::track_object: the owned handle moves into the token's arena.
track_object(s, p) ==
  IF s.fault # "none" THEN s
  ELSE [s EXCEPT !.arena = Append(@, p), !.ret = [kind |-> "ref", ptr |-> p]]

\* err::error_on_minusone: Err from the error indicator after a -1.
error_on_minusone(s) ==
  IF s.fault # "none" THEN s
  ELSE [s EXCEPT !.ret = [kind |-> IF s.ret.ptr = -1 THEN "Err" ELSE "Ok",
                          ptr |-> NULL]]

\* An item handed to set_item / insert_item: a host integer ("host", x its
\* value), a reference to an object the caller has a handle to ("ref", x
\* the object) or an owned handle moved into the call ("move"; "movep" when
\* the handle is one get_parked_item returned).
IsMove(item) == item.kind \in {"move", "movep"}

\* ToPyObject::to_object: a new object for a host value, a new reference for
\* a handle.
to_object(s, item) ==
  IF item.kind = "host" THEN alloc(s, item.x)
  ELSE from_borrowed_ptr(s, item.x)

\* Drop of an owned handle the caller holds.
drop_handle(s, h) ==
  IF s.fault # "none" THEN s
  ELSE decref([s EXCEPT !.handles[h] = @ - 1], h)

\* ToPyObject::with_borrowed_ptr, after the closure returned: the temporary
\* reference is released, the closure's result is the call's.
with_borrowed_ptr_exit(s, p) ==
  LET r == s.ret IN [xdecref(s, p) EXCEPT !.ret = r]

\* ------------------------------------------------------------- PyList
\* The construction loop shared by the three constructors: element k of v
\* becomes a new object, stored by PyList_SetItem.
\* The loop with the store index counted from the far end.
RECURSIVE fill_reversed(_, _, _)
fill_reversed(s, v, k) ==
  IF k > Len(v) THEN s
  ELSE LET s1 == to_object(s, [kind |-> "host", x |-> v[k]])
       IN  fill_reversed(PyList_SetItem(s1, Len(v) - k, s1.ret.ptr), v, k + 1)

RECURSIVE fill(_, _, _)
fill(s, v, k) ==
  IF k > Len(v) THEN s
  ELSE LET s1 == to_object(s, [kind |-> "host", x |-> v[k]])
       IN  fill(PyList_SetItem(s1, k - 1, s1.ret.ptr), v, k + 1)

PyList_new(s, v) ==
  [fill(PyList_New(s, Len(v)), v, 1) EXCEPT !.ret = [kind |-> "list", ptr |-> NULL]]

PyList_empty(s) ==
  [PyList_New(s, 0) EXCEPT !.ret = [kind |-> "list", ptr |-> NULL]]

slice_to_object(s, v) ==
  [fill(PyList_New(s, Len(v)), v, 1) EXCEPT !.ret = [kind |-> "list", ptr |-> NULL]]

vec_to_object(s, v) == slice_to_object(s, v)

vec_into_object(s, v) ==
  [fill(PyList_New(s, Len(v)), v, 1) EXCEPT !.ret = [kind |-> "list", ptr |-> NULL]]

len(s) == PyList_Size(s)

\* get_item with a negative index counted from the end, as the foreign
\* language's own subscript does.
get_item_wrapped(s, index) ==
  LET s1 == PyList_GetItem(s, IF index < 0 THEN index + Len(s.slots) ELSE index)
      s2 == from_borrowed_ptr(s1, s1.ret.ptr)
  IN  track_object(s2, s2.ret.ptr)

get_item(s, index) ==
  LET s1 == PyList_GetItem(s, index)
      s2 == from_borrowed_ptr(s1, s1.ret.ptr)
  IN  track_object(s2, s2.ret.ptr)

get_parked_item(s, index) ==
  LET s1 == PyList_GetItem(s, index)
  IN  from_borrowed_ptr(s1, s1.ret.ptr)

set_item(s, index, item) ==
  LET s1 == to_object(s, item)
      p == s1.ret.ptr
      s2 == with_borrowed_ptr_exit(error_on_minusone(PyList_SetItem(s1, index, p)), p)
  IN  IF IsMove(item) THEN drop_handle(s2, item.x) ELSE s2

\* insert_item placing the item after the index instead of before it.
insert_item_after(s, index, item) ==
  LET s1 == to_object(s, item)
      p == s1.ret.ptr
      s2 == with_borrowed_ptr_exit(error_on_minusone(PyList_Insert(s1, index + 1, p)), p)
  IN  IF IsMove(item) THEN drop_handle(s2, item.x) ELSE s2

insert_item(s, index, item) ==
  LET s1 == to_object(s, item)
      p == s1.ret.ptr
      s2 == with_borrowed_ptr_exit(error_on_minusone(PyList_Insert(s1, index, p)), p)
  IN  IF IsMove(item) THEN drop_handle(s2, item.x) ELSE s2

\* An iterator that starts past the first item.
iter_new_skip == [active |-> TRUE, index |-> 1]

\* PyList::iter: a new iterator, at index 0.
iter_new == [active |-> TRUE, index |-> 0]

\* next with the bound test off by one.
next_inclusive(s, i) ==
  IF i <= len(s)
  THEN [st |-> [get_item(s, i) EXCEPT !.ret.kind = "Some"], index |-> i + 1]
  ELSE [st |-> [s EXCEPT !.ret = [kind |-> "None", ptr |-> NULL]], index |-> i]

\* PyListIterator::next on an iterator at index i: the state after it (st)
\* and the iterator's index after it.
next(s, i) ==
  IF i < len(s)
  THEN [st |-> [get_item(s, i) EXCEPT !.ret.kind = "Some"], index |-> i + 1]
  ELSE [st |-> [s EXCEPT !.ret = [kind |-> "None", ptr |-> NULL]], index |-> i]

\* TrackedArena::drop_all at token teardown: every entry released, in
\* insertion order.
RECURSIVE drop_all(_, _)
drop_all(s, k) ==
  IF k > Len(s.arena) THEN [s EXCEPT !.arena = <<>>]
  ELSE drop_all(decref(s, s.arena[k]), k + 1)

\* The foreign runtime's own list.pop(): the last item leaves the list and
\* its reference is released.
foreign_pop(s) ==
  LET n == Len(s.slots)
  IN  decref([s EXCEPT !.slots = SubSeq(@, 1, n - 1)], s.slots[n])

\* ------------------------------------------------------- state machine
HostSeqs == UNION {[1..n -> Val] : n \in 0..MaxBuild}

\* The indices a caller passes: every valid one, and the nearest invalid one
\* on either side.
IndexRange(s) == (0 - 1)..Len(s.slots)

NoItem == [kind |-> "none", x |-> 0]

\* The items a caller can pass: a host value needs a free cell for its
\* object, a handle must be one the caller holds.
Items(s) ==
  {[kind |-> "host", x |-> v] : v \in IF Free(s) = {} THEN {} ELSE Val}
  \cup {[kind |-> "move", x |-> h] : h \in {o \in Obj : s.handles[o] > parked[o]}}
  \cup {[kind |-> "movep", x |-> h] : h \in {o \in Obj : parked[o] > 0}}
  \cup {[kind |-> "ref", x |-> h] :
          h \in {o \in Obj : s.handles[o] > 0 \/ \E k \in 1..Len(s.arena) : s.arena[k] = o}}

RECURSIVE SumTo(_, _)
SumTo(f, n) == IF n = 0 THEN 0 ELSE f[n] + SumTo(f, n - 1)

Bounded(s) ==
  /\ \A o \in Obj : s.rc[o] <= MaxRc
  /\ Len(s.slots) <= MaxLen
  /\ Len(s.arena) <= MaxArena
  /\ SumTo(s.handles, MaxObj) <= MaxHandles

Commit(r, op, index, item) == \E s \in {r} :
  /\ Bounded(s)
  /\ slots' = s.slots
  /\ rc' = s.rc
  /\ val' = s.val
  /\ handles' = s.handles
  /\ arena' = s.arena
  /\ fault' = s.fault
  /\ last' = [op |-> op, index |-> index, item |-> item,
              ret |-> IF s.fault = "none" THEN s.ret
                      ELSE [kind |-> "Fault", ptr |-> NULL]]

Running == phase = "run" /\ fault = "none" /\ steps < MaxSteps /\ steps' = steps + 1

Init ==
  /\ slots = <<>>
  /\ rc = [o \in Obj |-> 0]
  /\ val = [o \in Obj |-> 0]
  /\ handles = [o \in Obj |-> 0]
  /\ parked = [o \in Obj |-> 0]
  /\ arena = <<>>
  /\ fault = "none"
  /\ phase = "init"
  /\ iter = [active |-> FALSE, index |-> 0]
  /\ last = [op |-> "none", index |-> 0, item |-> NoItem, ret |-> NoRet]
  /\ built = <<>>
  /\ fresh = FALSE
  /\ yielded = <<>>
  /\ steps = 0

Constructed(v) ==
  /\ phase' = "run"
  /\ built' = v
  /\ fresh' = TRUE
  /\ UNCHANGED <<iter, yielded, steps, parked>>

\* The list is no longer as constructed: the record of its construction is
\* dropped.
Modified ==
  /\ fresh' = FALSE
  /\ built' = <<>>
  /\ yielded' = <<>>

New ==
  /\ phase = "init"
  /\ \E v \in HostSeqs :
       /\ Commit(PyList_new(Cur, v), "new", 0, NoItem)
       /\ Constructed(v)

Empty ==
  /\ phase = "init"
  /\ Commit(PyList_empty(Cur), "empty", 0, NoItem)
  /\ Constructed(<<>>)

SliceToObject ==
  /\ phase = "init"
  /\ \E v \in HostSeqs :
       /\ Commit(slice_to_object(Cur, v), "slice_to_object", 0, NoItem)
       /\ Constructed(v)

VecToObject ==
  /\ phase = "init"
  /\ \E v \in HostSeqs :
       /\ Commit(vec_to_object(Cur, v), "vec_to_object", 0, NoItem)
       /\ Constructed(v)

VecIntoObject ==
  /\ phase = "init"
  /\ \E v \in HostSeqs :
       /\ Commit(vec_into_object(Cur, v), "vec_into_object", 0, NoItem)
       /\ Constructed(v)

\* The caller converts a host integer to an owned handle it keeps.
ToObject ==
  /\ Running
  /\ Free(Cur) # {}
  /\ \E v \in Val :
       LET s == to_object(Cur, [kind |-> "host", x |-> v])
       IN  Commit([s EXCEPT !.handles[s.ret.ptr] = @ + 1], "to_object", 0,
                  [kind |-> "host", x |-> v])
  /\ UNCHANGED <<phase, iter, built, fresh, yielded, parked>>

\* The caller drops an owned handle: one it made (pk false) or one that
\* get_parked_item returned (pk true).
DropHandle ==
  /\ Running
  /\ \E h \in Obj : \E pk \in BOOLEAN :
       /\ IF pk THEN parked[h] > 0 ELSE handles[h] > parked[h]
       /\ Commit(drop_handle(Cur, h), "drop", 0,
                 [kind |-> IF pk THEN "movep" ELSE "move", x |-> h])
       /\ parked' = IF pk THEN [parked EXCEPT ![h] = @ - 1] ELSE parked
  /\ UNCHANGED <<phase, iter, built, fresh, yielded>>

GetItem ==
  /\ Running
  /\ \E i \in IndexRange(Cur) : Commit(get_item(Cur, i), "get_item", i, NoItem)
  /\ UNCHANGED <<phase, iter, built, fresh, yielded, parked>>

\* The handle get_parked_item returns is the caller's to keep.
GetParkedItem ==
  /\ Running
  /\ \E i \in IndexRange(Cur) : \E s \in {get_parked_item(Cur, i)} :
       IF s.fault = "none"
       THEN /\ Commit([s EXCEPT !.handles[s.ret.ptr] = @ + 1],
                      "get_parked_item", i, NoItem)
            /\ parked' = [parked EXCEPT ![s.ret.ptr] = @ + 1]
       ELSE /\ Commit(s, "get_parked_item", i, NoItem)
            /\ parked' = parked
  /\ UNCHANGED <<phase, iter, built, fresh, yielded>>

\* A parked handle moved into a call is dropped by it.
Moved(item) ==
  parked' = IF item.kind = "movep" /\ fault' = "none"
            THEN [parked EXCEPT ![item.x] = @ - 1] ELSE parked

SetItem ==
  /\ Running
  /\ \E i \in IndexRange(Cur) : \E item \in Items(Cur) :
       /\ Commit(set_item(Cur, i, item), "set_item", i, item)
       /\ Moved(item)
  /\ Modified
  /\ UNCHANGED <<phase, iter>>

InsertItem ==
  /\ Running
  /\ \E i \in IndexRange(Cur) : \E item \in Items(Cur) :
       /\ Commit(insert_item(Cur, i, item), "insert_item", i, item)
       /\ Moved(item)
  /\ Modified
  /\ UNCHANGED <<phase, iter>>

Iter ==
  /\ Running
  /\ iter' = iter_new
  /\ yielded' = <<>>
  /\ last' = [op |-> "iter", index |-> 0, item |-> NoItem, ret |-> NoRet]
  /\ UNCHANGED <<slots, rc, val, handles, parked, arena, fault, phase, built,
                 fresh>>

\* next() is not counted in steps: the list's length bounds it.
IterNext ==
  /\ phase = "run" /\ fault = "none"
  /\ iter.active
  /\ \E r \in {next(Cur, iter.index)} :
       /\ Commit(r.st, "next", iter.index, NoItem)
       /\ iter' = [iter EXCEPT !.index = IF r.st.fault = "none"
                                         THEN r.index ELSE @]
       /\ yielded' = IF fresh /\ r.st.fault = "none" /\ r.st.ret.kind = "Some"
                     THEN Append(yielded, r.st.ret.ptr) ELSE yielded
  /\ UNCHANGED <<phase, built, fresh, steps, parked>>

\* The foreign runtime removes the list's last item (foreign code run
\* between two calls).
ForeignPop ==
  /\ Running
  /\ Len(slots) > 0
  /\ Commit(foreign_pop(Cur), "foreign_pop", 0, NoItem)
  /\ Modified
  /\ UNCHANGED <<phase, iter, parked>>

\* The token is torn down: its arena is released.
ReleaseToken ==
  /\ Running
  /\ Commit(drop_all(Cur, 1), "release", 0, NoItem)
  /\ phase' = "released"
  /\ UNCHANGED <<iter, built, fresh, yielded, parked>>

Next ==
  \/ New \/ Empty \/ SliceToObject \/ VecToObject \/ VecIntoObject
  \/ ToObject \/ DropHandle \/ GetItem \/ GetParkedItem
  \/ SetItem \/ InsertItem \/ Iter \/ IterNext \/ ForeignPop \/ ReleaseToken

Spec == Init /\ [][Next]_vars

\* ------------------------------------------------------------- claims
\* What get_item(i) gives in state s: the object and the integer it
\* extracts to, or a fault.
Yields(s, i) ==
  LET g == get_item(s, i)
  IN  IF g.fault # "none" THEN <<g.fault, NULL, 0>>
      ELSE <<"ok", g.ret.ptr, g.val[g.ret.ptr]>>

\* y is item x: the integer of a host value, the object of a handle.
IsItem(y, item) ==
  /\ y[1] = "ok"
  /\ IF item.kind = "host" THEN y[3] = item.x ELSE y[2] = item.x

\* The strong holders of object o: list slots, owned handles, arena entries.
Holders(o) ==
  Cardinality({k \in 1..Len(slots) : slots[k] = o}) + handles[o]
  + Cardinality({k \in 1..Len(arena) : arena[k] = o})

\* C1: a list built from the host sequence v by new, to_object or
\* into_object has length len(v), and its item at every index i extracts
\* to v[i] (as long as the list is as built).
C1_RoundTrip ==
  (fresh /\ fault = "none") =>
    /\ Len(slots) = Len(built)
    /\ \A i \in 0..(Len(built) - 1) :
         LET y == Yields(Cur, i) IN y[1] = "ok" /\ y[3] = built[i + 1]

C1_Witness ==
  /\ fresh /\ last.op = "vec_into_object"
  /\ Len(built) = 2 /\ built[1] # built[2]
  /\ Len(slots) = 2

\* C2 (as claimed): after set_item(i, x) returns Ok on a list of length n,
\* get_item(i) yields x, the length is n, and every other slot holds the
\* element it held.
C2_SetThenGet ==
  [][(last'.op = "set_item" /\ last'.ret.kind = "Ok") =>
       /\ Len(slots') = Len(slots)
       /\ IsItem(Yields(Cur', last'.index), last'.item)
       /\ \A j \in 0..(Len(slots) - 1) :
            j # last'.index => slots'[j + 1] = slots[j + 1]]_vars

C4_OutOfRangeErr ==
  [][(\/ /\ last'.op = "set_item"
         /\ (last'.index < 0 \/ last'.index >= Len(slots))
      \/ /\ last'.op = "insert_item"
         /\ (last'.index < 0 \/ last'.index > Len(slots))) =>
       /\ fault' = "none"
       /\ last'.ret.kind = "Err"
       /\ slots' = slots
       /\ \A j \in 0..(Len(slots) - 1) : Yields(Cur', j) = Yields(Cur, j)]_vars

\* C5: get_item and get_parked_item with an index outside [0, len), index
\* = len included, panic: no handle and no Err is returned, and the arena,
\* the handles and the reference counts are as before.
C5_GetOutOfRangePanics ==
  [][(/\ last'.op \in {"get_item", "get_parked_item"}
      /\ (last'.index < 0 \/ last'.index >= Len(slots))) =>
       /\ fault' = "panic"
       /\ last'.ret.kind = "Fault"
       /\ arena' = arena /\ handles' = handles /\ rc' = rc
       /\ slots' = slots]_vars

C5_Witness ==
  /\ last.op = "get_item" /\ last.index = Len(slots) /\ Len(slots) = 2
  /\ fault = "panic"

\* C6: the iteration of a list as built from v, not modified meanwhile,
\* yields the items at indices 0, 1, ... (the k-th extracts to v[k]), ends
\* with None after exactly len(v) items, and iter() starts at index 0.
C6_FreshIteration ==
  (fresh /\ iter.active) =>
    /\ iter.index = Len(yielded)
    /\ Len(yielded) <= Len(built)
    /\ \A k \in 1..Len(yielded) :
         /\ yielded[k] = slots[k]
         /\ rc[yielded[k]] > 0 /\ val[yielded[k]] = built[k]
    /\ last.op = "iter" => (iter.index = 0 /\ yielded = <<>>)
    /\ last.op = "next" =>
         /\ fault = "none"
         /\ IF last.ret.kind = "None" THEN Len(yielded) = Len(built)
            ELSE /\ last.ret.kind = "Some"
                 /\ last.index = Len(yielded) - 1
                 /\ last.ret.ptr = yielded[Len(yielded)]

C6_Witness ==
  /\ fresh /\ iter.active
  /\ last.op = "next" /\ last.ret.kind = "None"
  /\ Len(yielded) = 2 /\ built[1] # built[2]

\* C7 (as claimed): the handle get_parked_item returns is independently
\* owned: the call raises the element's count by one and adds no arena
\* entry, the handle's object stays live (count >= 1) whatever set_item or
\* the release of the arena do later, and the drop lowers the count by one.
C7_ParkedLive ==
  fault = "none" => \A o \in Obj : parked[o] > 0 => rc[o] >= 1

C7_ParkedStep ==
  /\ (last'.op = "get_parked_item" /\ fault' = "none") =>
       /\ last'.ret.kind = "owned"
       /\ last'.ret.ptr = slots[last'.index + 1]
       /\ rc' = [rc EXCEPT ![last'.ret.ptr] = @ + 1]
       /\ arena' = arena
  /\ (last'.op = "drop" /\ last'.item.kind = "movep" /\ fault' = "none") =>
       rc' = [rc EXCEPT ![last'.item.x] = @ - 1]

C7_ParkedItem == []C7_ParkedLive /\ [][C7_ParkedStep]_vars

\* C8: next() compares the iterator's index with the list's length at the
\* call: below it, it returns the element now at the index and advances
\* by one; otherwise it returns None.  It never calls get_item with an
\* index outside [0, len), so it never panics.
C8_LiveView ==
  [][last'.op = "next" =>
       /\ fault' # "panic"
       /\ last'.index = iter.index
       /\ IF iter.index < Len(slots)
          THEN fault' = "none" =>
                 /\ last'.ret = [kind |-> "Some", ptr |-> slots[iter.index + 1]]
                 /\ iter'.index = iter.index + 1
                 /\ arena' = Append(arena, slots[iter.index + 1])
          ELSE /\ last'.ret.kind = "None"
               /\ fault' = "none"
               /\ iter' = iter
               /\ UNCHANGED <<slots, rc, val, arena, handles>>]_vars

C8_Witness ==
  /\ last.op = "next" /\ last.ret.kind = "None"
  /\ iter.index > Len(slots)

\* C9 (as claimed): every object's reference count equals the number of
\* its strong holders (list slots, owned handles, arena entries).
C9_RefcountBalance ==
  fault = "none" => \A o \in Obj : rc[o] = Holders(o)

\* C10 (as claimed): get_item appends one owning entry to the arena, no
\* call removes one while the token is live, the object of an entry stays
\* live until the teardown, which releases every entry once.
C10_ArenaLive ==
  fault = "none" => \A k \in 1..Len(arena) : rc[arena[k]] >= 1

C10_ArenaStep ==
  /\ (last'.op \in {"get_item", "next"} /\ last'.ret.kind \in {"ref", "Some"}) =>
       /\ arena' = Append(arena, last'.ret.ptr)
       /\ rc' = [rc EXCEPT ![last'.ret.ptr] = @ + 1]
  /\ (phase' = "run" /\ last'.op \notin {"get_item", "next"}) => arena' = arena
  /\ (last'.op = "release" /\ fault' = "none") =>
       /\ arena' = <<>>
       /\ \A o \in Obj :
            rc'[o] = rc[o] - Cardinality({k \in 1..Len(arena) : arena[k] = o})

C10_Arena == []C10_ArenaLive /\ [][C10_ArenaStep]_vars
====
